---- MODULE Spec2Model ----
(***************************************************************************)
(* Model of the datastats dashboards: src/dashboard.py (cached global      *)
(* aggregation, per-tag search) and src/dash.py (global timeline and       *)
(* ranking by location).  A render cycle is one run of a script; every     *)
(* aggregation call is followed statement by statement.                    *)
(*                                                                         *)
(* Strings that are matched with LIKE are sequences of tokens, so that a   *)
(* substring match is computed.  Megabyte values are kept in hundredths    *)
(* of a megabyte (the two decimals round(.., 2) keeps).                    *)
(***************************************************************************)
EXTENDS Integers, Sequences, FiniteSets, TLC

\* ------------------------------------------------------------ bounds
MaxTime == 450          \* the clock stops advancing here
MaxRecords == 2         \* rows of glpi_network_stats in a render-cycle run
MaxAggRecords == 3      \* rows of glpi_network_stats in an aggregation run

\* ------------------------------------------------- program constants
TTL == 300              \* @st.cache_data(ttl=300)
BytesPerMB == 1048576   \* 1024 * 1024

\* ------------------------------------------------------- environment
Params == {"DB_HOST", "DB_PORT", "DB_USER", "DB_PASSWORD", "DB_NAME"}

\* Clock advances between two steps (seconds).
Advances == {150, 299, 300}

\* ---------------------------------------------------------- database
AppPattern == <<"bsp.exe">>                    \* LIKE '%bsp.exe%'
BspApp == <<"bsp.exe">>
BspPath == <<"c:", "bsp.exe">>
OtherApp == <<"other.exe">>

\* glpi_locations
Locations == { [id |-> 1, name |-> "a"], [id |-> 2, name |-> "B"] }

\* glpi_agents: the tag of a computer
Agents ==
    { [items_id |-> 1, itemtype |-> "Computer", tag |-> <<"D", "A", "L">>],
      [items_id |-> 2, itemtype |-> "Computer", tag |-> <<"D", "D", "P">>],
      [items_id |-> 2, itemtype |-> "Printer",  tag |-> <<"D", "A", "L">>] }

\* glpi_computers: computer 3 has no row in glpi_locations in the second table
ComputerTables ==
    { { [id |-> 1, locations_id |-> 1], [id |-> 2, locations_id |-> 2],
        [id |-> 3, locations_id |-> 1] },
      { [id |-> 1, locations_id |-> 1], [id |-> 2, locations_id |-> 2],
        [id |-> 3, locations_id |-> 0] } }

\* glpi_network_stats rows the ingestion system may have written
StatsUniverse ==
    { [id |-> 1, date_log |-> 1, computers_id |-> 1, app_name |-> BspApp,
       total_sent |-> 5243, total_received |-> 0],
      [id |-> 2, date_log |-> 1, computers_id |-> 2, app_name |-> BspPath,
       total_sent |-> 5000, total_received |-> 243],
      [id |-> 3, date_log |-> 1, computers_id |-> 3, app_name |-> BspApp,
       total_sent |-> 1048576, total_received |-> 1048576],
      [id |-> 4, date_log |-> 2, computers_id |-> 1, app_name |-> BspApp,
       total_sent |-> 131072, total_received |-> 0],
      [id |-> 5, date_log |-> 2, computers_id |-> 2, app_name |-> OtherApp,
       total_sent |-> 1048576, total_received |-> 0] }

Dates == { ns.date_log : ns \in StatsUniverse }

\* --------------------------------------------------- pure operators
RECURSIVE SumOver(_, _)
\* SUM(...) of SQL and Series.sum(): the sum of F[x] over the finite set S
SumOver(S, F) ==
    IF S = {} THEN 0
    ELSE LET x == CHOOSE y \in S : TRUE
         IN F[x] + SumOver(S \ {x}, F)

RECURSIVE SeqSum(_)
SeqSum(s) == IF s = <<>> THEN 0 ELSE Head(s) + SeqSum(Tail(s))

\* s LIKE '%sub%'
Contains(s, sub) ==
    \E i \in 0..(Len(s) - Len(sub)) : SubSeq(s, i + 1, i + Len(sub)) = sub

\* the rows of the set S in every order
Orderings(S) ==
    { s \in [1..Cardinality(S) -> S] :
        \A i, j \in 1..Cardinality(S) : i # j => s[i] # s[j] }

\* (bytes / (1024 * 1024)).round(2), in hundredths of a MB; a tie goes to
\* the even neighbour, as numpy rounds
toMegabytes(bytes) ==
    LET scaled == bytes * 100
        q == scaled \div BytesPerMB
        r == scaled % BytesPerMB
    IN  IF 2 * r > BytesPerMB THEN q + 1
        ELSE IF 2 * r = BytesPerMB THEN q + (q % 2)
        ELSE q

\* SUM(ns.total_sent + ns.total_received) over a set of joined rows
BytesOf == [ns \in StatsUniverse |-> ns.total_sent + ns.total_received]

\* ------------------------------------------------------- data frames
Frame(cols, rows) == [columns |-> cols, rows |-> rows]

\* pd.DataFrame()
EmptyFrame == Frame(<<>>, <<>>)

\* DataFrame.empty: some axis has length 0
empty(df) == Len(df.columns) = 0 \/ Len(df.rows) = 0

\* df['total_mb'] = (df['total_bytes'] / (1024 * 1024)).round(2)
WithTotalMb(df) ==
    Frame(Append(df.columns, "total_mb"),
          [i \in 1..Len(df.rows) |->
              [k \in DOMAIN df.rows[i] \cup {"total_mb"} |->
                  IF k = "total_mb" THEN toMegabytes(df.rows[i].total_bytes)
                  ELSE df.rows[i][k]]])

\* ------------------------------------------------------- the queries
\* WHERE ns.app_name LIKE '%bsp.exe%'
MatchesApp(ns) == Contains(ns.app_name, AppPattern)

\* FROM glpi_network_stats ns JOIN glpi_computers c ON ns.computers_id = c.id
\*                            JOIN glpi_locations l ON c.locations_id = l.id
JoinLocations(d) ==
    { j \in d.stats \X d.computers \X Locations :
        j[1].computers_id = j[2].id /\ j[2].locations_id = j[3].id }

JoinBytes(J) == SumOver(J, [j \in J |-> BytesOf[j[1]]])

\* dashboard.py query_timeline: GROUP BY ns.date_log, l.name
TimelineBySiteRows(d) ==
    LET J == { j \in JoinLocations(d) : MatchesApp(j[1]) }
    IN  { [date_log |-> k[1], location_name |-> k[2],
           total_bytes |-> JoinBytes({ j \in J : j[1].date_log = k[1] /\ j[3].name = k[2] })] :
          k \in { <<j[1].date_log, j[3].name>> : j \in J } }

\* dashboard.py query_ranking: GROUP BY l.name
RankingRows(d) ==
    LET J == { j \in JoinLocations(d) : MatchesApp(j[1]) }
    IN  { [location_name |-> n,
           total_bytes |-> JoinBytes({ j \in J : j[3].name = n })] :
          n \in { j[3].name : j \in J } }

\* dashboard.py get_player_data query: JOIN glpi_agents a ON a.items_id = c.id
\* AND a.itemtype = 'Computer' ... AND a.tag LIKE %s, with %s = '%<tag>%'
PlayerRows(d, player_tag) ==
    LET J == { ja \in JoinLocations(d) \X Agents :
                 /\ ja[2].items_id = ja[1][2].id
                 /\ ja[2].itemtype = "Computer"
                 /\ MatchesApp(ja[1][1])
                 /\ Contains(ja[2].tag, player_tag) }
        K == { <<ja[1][1].date_log, ja[1][3].name, ja[2].tag>> : ja \in J }
    IN  { [date_log |-> k[1], location_name |-> k[2], player_id |-> k[3],
           total_bytes |->
              LET G == { ja \in J : /\ ja[1][1].date_log = k[1]
                                    /\ ja[1][3].name = k[2]
                                    /\ ja[2].tag = k[3] }
              IN  SumOver(G, [ja \in G |-> BytesOf[ja[1][1]]])] :
          k \in K }

\* dash.py get_global_stats_by_location query: GROUP BY l.name
GlobalStatsByLocationRows(d) ==
    LET J == { j \in JoinLocations(d) : MatchesApp(j[1]) }
    IN  { [location_name |-> n,
           total_bytes |-> JoinBytes({ j \in J : j[3].name = n })] :
          n \in { j[3].name : j \in J } }

\* mutant of GlobalTimelineRows: SUM(ns.total_sent) only
GlobalTimelineRowsSentOnly(d) ==
    LET S == { ns \in d.stats : MatchesApp(ns) }
    IN  { [date_log |-> day,
           total_bytes |->
              LET G == { ns \in S : ns.date_log = day }
              IN  SumOver(G, [ns \in G |-> ns.total_sent])] :
          day \in { ns.date_log : ns \in S } }

\* dash.py get_global_timeline query: no join, GROUP BY ns.date_log
GlobalTimelineRows(d) ==
    LET S == { ns \in d.stats : MatchesApp(ns) }
    IN  { [date_log |-> day,
           total_bytes |->
              LET G == { ns \in S : ns.date_log = day }
              IN  SumOver(G, [ns \in G |-> BytesOf[ns]])] :
          day \in { ns.date_log : ns \in S } }

\* ORDER BY ns.date_log ASC; rows of one date come in any order
ByDateAsc(s) == \A i, j \in 1..Len(s) : i < j => s[i].date_log <= s[j].date_log

\* ORDER BY total_bytes DESC; rows of one total come in any order
ByBytesDesc(s) == \A i, j \in 1..Len(s) : i < j => s[i].total_bytes >= s[j].total_bytes

\* pd.read_sql results: every row order the ORDER BY clause allows
TimelineBySiteFrames(d) ==
    { Frame(<<"date_log", "location_name", "total_bytes">>, s) :
        s \in { o \in Orderings(TimelineBySiteRows(d)) : ByDateAsc(o) } }

RankingFrames(d) ==
    { Frame(<<"location_name", "total_bytes">>, s) :
        s \in { o \in Orderings(RankingRows(d)) : ByBytesDesc(o) } }

PlayerFrames(d, player_tag) ==
    { Frame(<<"date_log", "location_name", "player_id", "total_bytes">>, s) :
        s \in { o \in Orderings(PlayerRows(d, player_tag)) : ByDateAsc(o) } }

GlobalStatsByLocationFrames(d) ==
    { Frame(<<"location_name", "total_bytes">>, s) :
        s \in { o \in Orderings(GlobalStatsByLocationRows(d)) : ByBytesDesc(o) } }

GlobalTimelineFrames(d) ==
    { Frame(<<"date_log", "total_bytes">>, s) :
        s \in { o \in Orderings(GlobalTimelineRows(d)) : ByDateAsc(o) } }

\* ------------------------------------------------------------- state
VARIABLES
    env,            \* the connection parameters present in the environment
    now,            \* the clock, in seconds
    db,             \* the database: [stats, computers]
    cache,          \* entries of st.cache_data
    app,            \* the script of the current render cycle
    pc,             \* position of the script
    conn,           \* local conn of the running call: None, open, lost, closed
    open_conns,     \* connections currently open
    df_time,        \* get_global_data's local df_time
    player_input,   \* text typed in the sidebar
    df_timeline,    \* dashboard.py df_timeline
    dash_timeline,  \* dash.py df_timeline
    df_ranking,     \* dashboard.py df_ranking
    df_location,    \* dash.py df_location
    df_p,           \* dashboard.py df_p
    surface,        \* what the current render cycle has put on the page
    kpis,           \* the KPI values of dashboard.py's first row
    fault,          \* an exception escaped and aborted the script
    call,           \* record of the current (or last) aggregation call
    noted           \* a return a test has kept to compare later returns with

vars == <<env, now, db, cache, app, pc, conn, open_conns, df_time, player_input,
          df_timeline, df_ranking, dash_timeline, df_location, df_p, surface, kpis, fault, call, noted>>

\* sidebar inputs: the empty string, a tag fragment that matches, one that does not
PlayerInputs == { <<>>, <<"A", "L">>, <<"N", "O">> }

Databases(n) ==
    { [stats |-> S, computers |-> C] :
        S \in { T \in SUBSET StatsUniverse : Cardinality(T) <= n },
        C \in ComputerTables }

\* the databases a render-cycle run starts from
RenderUniverse == { ns \in StatsUniverse : ns.id \in {2, 4} }

RenderDatabases ==
    { d \in Databases(MaxRecords) :
        /\ d.stats \subseteq RenderUniverse
        /\ \E c \in d.computers : c.locations_id = 0 }

NoCall ==
    [fn |-> "", args |-> <<>>, started |-> 0, fresh |-> {}, connects |-> 0,
     none_args |-> {}, queries |-> 0, fetched |-> <<>>, msgs |-> {},
     outcome |-> "none", result |-> <<>>]

\* ------------------------------------------------------ st.cache_data
\* mutant of Cached: every aggregation function decorated
CachedAll(fn) == TRUE

\* the decorator: only get_global_data carries @st.cache_data
Cached(fn) == fn = "get_global_data"

\* mutant of CacheHit: the age test the wrong way round
CacheHitInverted(e, t) == e.stored_at + TTL < t

\* an entry is served while it is younger than its ttl
CacheHit(e, t) == t < e.stored_at + TTL

Lookup(c, fn, args, t) ==
    { e \in c : e.fn = fn /\ e.args = args /\ CacheHit(e, t) }

\* mutant of Stored: a result that came with an error message is not kept
StoredUnlessFailed(c, fn, args, value, msgs, t) ==
    IF Cached(fn) /\ msgs = {}
    THEN { e \in c : ~(e.fn = fn /\ e.args = args) }
           \cup { [fn |-> fn, args |-> args, value |-> value, msgs |-> msgs,
                   stored_at |-> t] }
    ELSE c

\* the wrapper stores whatever the function returned, with the elements
\* (st.error) it emitted, replacing the entry of the same key
Stored(c, fn, args, value, msgs, t) ==
    IF Cached(fn)
    THEN { e \in c : ~(e.fn = fn /\ e.args = args) }
           \cup { [fn |-> fn, args |-> args, value |-> value, msgs |-> msgs,
                   stored_at |-> t] }
    ELSE c

\* ----------------------------------------------------- init_connection
\* os.getenv(p) is None for a parameter the environment lacks: the keyword
\* arguments mysql.connector.connect is called with as None
NoneArguments(e) == Params \ e

\* mutant of init_connection: no try/except around the connect call
init_connection_uncaught(ok) ==
    IF ok THEN [conn |-> "open", msgs |-> {}, raised |-> FALSE]
    ELSE [conn |-> "None", msgs |-> {}, raised |-> TRUE]

\* try: return mysql.connector.connect(...)
\* except Exception as e: st.error(...); return None
init_connection(ok) ==
    IF ok THEN [conn |-> "open", msgs |-> {}, raised |-> FALSE]
    ELSE [conn |-> "None", msgs |-> {"connection_error"}, raised |-> FALSE]

\* mutant of CloseIfConnected: the except branch forgets the connection
CloseNever(c) == c

\* dashboard.py except branch: if conn.is_connected(): conn.close()
CloseIfConnected(c) == IF c = "open" THEN "closed" ELSE c

\* dash.py: conn.close()
Close(c) == "closed"

Released(n, old, new) == IF old = "open" /\ new # "open" THEN n - 1 ELSE n

\* mutant of get_global_data_on_error: the except branch returns what was fetched
get_global_data_partial(fetched) ==
    IF Len(fetched) = 1 THEN <<fetched[1], EmptyFrame>> ELSE <<EmptyFrame, EmptyFrame>>

\* get_global_data's return value when a query raised (the except branch)
get_global_data_on_error(fetched) == <<EmptyFrame, EmptyFrame>>

\* ------------------------------------------------------ call plumbing
Begin(fn, args) ==
    [NoCall EXCEPT !.fn = fn, !.args = args, !.started = now,
                   !.fresh = { e \in cache : /\ e.fn = fn /\ e.args = args
                                             /\ now < e.stored_at + TTL },
                   !.outcome = "running"]

\* DataFrame.empty of each returned frame: all that a caller tests of a result
Observed(value) == [i \in 1..Len(value) |-> empty(value[i])]

\* how a call ended: a failure, a query that matched no rows, or something else
Kind(outcome, value) ==
    IF outcome \in {"conn_failed", "query_failed"} THEN "failed"
    ELSE IF outcome = "ok" /\ \A i \in 1..Len(value) : Len(value[i].rows) = 0
         THEN "no_rows"
    ELSE "other"

NothingNoted == [fn |-> "", kind |-> "other", observed |-> <<>>]

\* the call returns value: the wrapper stores it, the script keeps it
Return(c, outcome, value) ==
    /\ call' = [c EXCEPT !.outcome = outcome, !.result = value]
    /\ cache' = IF outcome = "hit" THEN cache
                ELSE Stored(cache, c.fn, c.args, value, c.msgs, now)
    /\ UNCHANGED noted

NoKpis ==
    [total_consumed |-> 0, top_loc_name |-> "", top_loc_val |-> 0,
     nb_locations |-> 0, last_date |-> 0]

Init ==
    /\ env = Params
    /\ now = 0
    /\ db \in RenderDatabases
    /\ cache = {}
    /\ app = "none"
    /\ pc = "idle"
    /\ conn = "None"
    /\ open_conns = 0
    /\ df_time = EmptyFrame
    /\ player_input = <<>>
    /\ df_timeline = EmptyFrame
    /\ df_ranking = EmptyFrame
    /\ dash_timeline = EmptyFrame
    /\ df_location = EmptyFrame
    /\ df_p = EmptyFrame
    /\ surface = {}
    /\ kpis = NoKpis
    /\ fault = FALSE
    /\ call = NoCall
    /\ noted = NothingNoted

\* ------------------------------------------------------ the outside
\* time passes
Tick(d) ==
    /\ now + d <= MaxTime
    /\ now' = now + d
    /\ UNCHANGED <<env, db, cache, app, pc, conn, open_conns, df_time, player_input,
                   df_timeline, df_ranking, dash_timeline, df_location, df_p, surface, kpis, fault, call, noted>>

\* the ingestion system writes a usage row
Ingest(r) ==
    /\ r \notin db.stats
    /\ Cardinality(db.stats) < MaxRecords
    /\ db' = [db EXCEPT !.stats = @ \cup {r}]
    /\ UNCHANGED <<env, now, cache, app, pc, conn, open_conns, df_time, player_input,
                   df_timeline, df_ranking, dash_timeline, df_location, df_p, surface, kpis, fault, call, noted>>

\* the ingestion system removes a usage row
Purge(r) ==
    /\ r \in db.stats
    /\ db' = [db EXCEPT !.stats = @ \ {r}]
    /\ UNCHANGED <<env, now, cache, app, pc, conn, open_conns, df_time, player_input,
                   df_timeline, df_ranking, dash_timeline, df_location, df_p, surface, kpis, fault, call, noted>>

\* ----------------------------------------------------- dashboard.py
\* a render cycle of dashboard.py starts; the user has typed input
StartDashboard(input) ==
    /\ pc = "idle"
    /\ app' = "dashboard"
    /\ player_input' = input
    /\ pc' = "gd_call"
    /\ UNCHANGED <<env, now, db, cache, conn, open_conns, df_time, df_timeline,
                   df_ranking, dash_timeline, df_location, df_p, surface, kpis, fault, call, noted>>

\* df_timeline, df_ranking = get_global_data(): the st.cache_data wrapper
get_global_data_cached ==
    /\ pc = "gd_call"
    /\ LET c == Begin("get_global_data", <<>>)
           hits == IF Cached(c.fn) THEN Lookup(cache, c.fn, c.args, now) ELSE {}
       IN  IF hits # {}
           THEN \E e \in hits :
                  /\ Return(c, "hit", e.value)
                  /\ df_timeline' = e.value[1]
                  /\ df_ranking' = e.value[2]
                  /\ surface' = surface \cup e.msgs
                  /\ pc' = "main"
           ELSE /\ call' = c
                /\ pc' = "gd_conn"
                /\ UNCHANGED <<cache, noted, df_timeline, df_ranking, surface>>
    /\ UNCHANGED <<env, now, db, app, conn, open_conns, df_time, player_input,
                   dash_timeline, df_location, df_p, kpis, fault>>

\* conn = init_connection(); if conn is None: return pd.DataFrame(), pd.DataFrame()
get_global_data_connect ==
    /\ pc = "gd_conn"
    /\ \E ok \in BOOLEAN :
         LET r == init_connection(ok)
             c == [call EXCEPT !.connects = @ + 1, !.msgs = @ \cup r.msgs,
                               !.none_args = NoneArguments(env)]
         IN  /\ surface' = surface \cup r.msgs
             /\ IF r.raised
                THEN /\ fault' = TRUE
                     /\ pc' = "done"
                     /\ call' = [c EXCEPT !.outcome = "raised"]
                     /\ UNCHANGED <<cache, noted, conn, open_conns, df_timeline, df_ranking>>
                ELSE IF r.conn = "None"
                THEN /\ Return(c, "conn_failed", <<EmptyFrame, EmptyFrame>>)
                     /\ df_timeline' = EmptyFrame
                     /\ df_ranking' = EmptyFrame
                     /\ pc' = "main"
                     /\ UNCHANGED <<conn, open_conns, fault>>
                ELSE /\ conn' = r.conn
                     /\ open_conns' = open_conns + 1
                     /\ call' = c
                     /\ pc' = "gd_q1"
                     /\ UNCHANGED <<cache, noted, df_timeline, df_ranking, fault>>
    /\ UNCHANGED <<env, now, db, app, df_time, player_input, dash_timeline, df_location, df_p, kpis>>

\* except Exception as e: st.error(...); if conn.is_connected(): conn.close();
\* return pd.DataFrame(), pd.DataFrame()
get_global_data_except(lost) ==
    LET broken == IF lost THEN "lost" ELSE conn
        c == [call EXCEPT !.queries = @ + 1, !.msgs = @ \cup {"sql_global_error"}]
    IN  /\ conn' = CloseIfConnected(broken)
        /\ open_conns' = Released(open_conns, conn, conn')
        /\ surface' = surface \cup {"sql_global_error"}
        /\ \E value \in { get_global_data_on_error(c.fetched) } :
             /\ Return(c, "query_failed", value)
             /\ df_timeline' = value[1]
             /\ df_ranking' = value[2]
        /\ pc' = "main"
        /\ UNCHANGED <<env, now, db, app, df_time, player_input, dash_timeline, df_location, df_p, kpis, fault>>

\* df_time = pd.read_sql(query_timeline, conn)
get_global_data_query_timeline ==
    /\ pc = "gd_q1"
    /\ \/ \E f \in TimelineBySiteFrames(db) :
            /\ df_time' = f
            /\ call' = [call EXCEPT !.queries = @ + 1, !.fetched = Append(@, f)]
            /\ pc' = "gd_q2"
            /\ UNCHANGED <<env, now, db, cache, app, conn, open_conns, player_input,
                           df_timeline, df_ranking, dash_timeline, df_location, df_p, surface, kpis, fault, noted>>
       \/ \E lost \in BOOLEAN : get_global_data_except(lost)

\* df_rank = pd.read_sql(query_ranking, conn); conn.close(); return df_time, df_rank
get_global_data_query_ranking ==
    /\ pc = "gd_q2"
    /\ \/ \E f \in RankingFrames(db) :
            LET c == [call EXCEPT !.queries = @ + 1, !.fetched = Append(@, f)]
            IN  /\ conn' = Close(conn)
                /\ open_conns' = Released(open_conns, conn, conn')
                /\ Return(c, "ok", <<df_time, f>>)
                /\ df_timeline' = df_time
                /\ df_ranking' = f
                /\ pc' = "main"
                /\ UNCHANGED <<env, now, db, app, df_time, player_input, dash_timeline, df_location, df_p,
                               surface, kpis, fault>>
       \/ \E lost \in BOOLEAN : get_global_data_except(lost)

\* mutant of ShowKpis: only the timeline is tested
ShowKpisTimelineOnly(t, r) == ~empty(t)

\* if not df_timeline.empty and not df_ranking.empty:
ShowKpis(t, r) == ~empty(t) /\ ~empty(r)

\* Series.str.upper() on the location names of the model
Upper(name) == IF name = "a" THEN "A" ELSE name

\* the KPI block of dashboard.py, on converted frames
Kpis(t, r) ==
    [total_consumed |-> SeqSum([i \in 1..Len(r.rows) |-> r.rows[i].total_mb]),
     top_loc_name   |-> r.rows[1].location_name,
     top_loc_val    |-> r.rows[1].total_mb,
     nb_locations   |-> Cardinality({ r.rows[i].location_name : i \in 1..Len(r.rows) }),
     last_date      |-> IF Len(t.rows) = 0 THEN 0
                        ELSE CHOOSE d \in { t.rows[i].date_log : i \in 1..Len(t.rows) } :
                               \A i \in 1..Len(t.rows) : t.rows[i].date_log <= d]

\* the main block of dashboard.py: conversion, KPIs and charts, or the notice
RenderMain ==
    /\ pc = "main"
    /\ IF ShowKpis(df_timeline, df_ranking)
       THEN IF Len(df_timeline.columns) = 0 \/ Len(df_ranking.columns) = 0
            THEN \* df[...]['total_bytes'] raises KeyError: nothing catches it
                 /\ fault' = TRUE
                 /\ pc' = "done"
                 /\ UNCHANGED <<df_timeline, df_ranking, kpis, surface>>
            ELSE IF Len(df_ranking.rows) = 0
            THEN \* df_ranking.iloc[0] raises IndexError: nothing catches it
                 /\ fault' = TRUE
                 /\ surface' = surface \cup {"top_entry_read"}
                 /\ pc' = "done"
                 /\ UNCHANGED <<df_timeline, df_ranking, kpis>>
            ELSE /\ df_timeline' = WithTotalMb(df_timeline)
                 /\ df_ranking' = WithTotalMb(df_ranking)
                 /\ kpis' = Kpis(df_timeline', df_ranking')
                 /\ surface' = surface \cup {"top_entry_read", "kpis", "charts"}
                 /\ pc' = "sidebar"
                 /\ UNCHANGED fault
       ELSE /\ surface' = surface \cup {"info_no_data"}
            /\ pc' = "sidebar"
            /\ UNCHANGED <<df_timeline, df_ranking, kpis, fault>>
    /\ UNCHANGED <<env, now, db, cache, app, conn, open_conns, df_time, player_input,
                   dash_timeline, df_location, df_p, call, noted>>

\* if player_input: df_p = get_player_data(player_input)
Sidebar ==
    /\ pc = "sidebar"
    /\ IF player_input = <<>>
       THEN /\ pc' = "done"
            /\ UNCHANGED <<cache, noted, call, df_p, surface>>
       ELSE LET c == Begin("get_player_data", <<player_input>>)
                hits == IF Cached(c.fn) THEN Lookup(cache, c.fn, c.args, now) ELSE {}
            IN  IF hits # {}
                THEN \E e \in hits :
                       /\ Return(c, "hit", e.value)
                       /\ df_p' = e.value[1]
                       /\ surface' = surface \cup e.msgs
                       /\ pc' = "p_show"
                ELSE /\ call' = c
                     /\ pc' = "p_conn"
                     /\ UNCHANGED <<cache, noted, df_p, surface>>
    /\ UNCHANGED <<env, now, db, app, conn, open_conns, df_time, player_input,
                   df_timeline, df_ranking, dash_timeline, df_location, kpis, fault>>

\* get_player_data: conn = init_connection(); if conn is None: return pd.DataFrame()
get_player_data_connect ==
    /\ pc = "p_conn"
    /\ \E ok \in BOOLEAN :
         LET r == init_connection(ok)
             c == [call EXCEPT !.connects = @ + 1, !.msgs = @ \cup r.msgs,
                               !.none_args = NoneArguments(env)]
         IN  /\ surface' = surface \cup r.msgs
             /\ IF r.raised
                THEN /\ fault' = TRUE
                     /\ pc' = "done"
                     /\ call' = [c EXCEPT !.outcome = "raised"]
                     /\ UNCHANGED <<cache, noted, conn, open_conns, df_p>>
                ELSE IF r.conn = "None"
                THEN /\ Return(c, "conn_failed", <<EmptyFrame>>)
                     /\ df_p' = EmptyFrame
                     /\ pc' = "p_show"
                     /\ UNCHANGED <<conn, open_conns, fault>>
                ELSE /\ conn' = r.conn
                     /\ open_conns' = open_conns + 1
                     /\ call' = c
                     /\ pc' = "p_q"
                     /\ UNCHANGED <<cache, noted, df_p, fault>>
    /\ UNCHANGED <<env, now, db, app, df_time, player_input, df_timeline, df_ranking,
                   dash_timeline, df_location, kpis>>

\* get_player_data: df = pd.read_sql(query, conn, params=...); conn.close();
\* return df -- or the except branch
get_player_data_query ==
    /\ pc = "p_q"
    /\ \/ \E f \in PlayerFrames(db, player_input) :
            LET c == [call EXCEPT !.queries = @ + 1, !.fetched = Append(@, f)]
            IN  /\ conn' = Close(conn)
                /\ Return(c, "ok", <<f>>)
                /\ df_p' = f
                /\ UNCHANGED surface
       \/ \E lost \in BOOLEAN :
            LET broken == IF lost THEN "lost" ELSE conn
                c == [call EXCEPT !.queries = @ + 1, !.msgs = @ \cup {"sql_player_error"}]
            IN  /\ conn' = CloseIfConnected(broken)
                /\ surface' = surface \cup {"sql_player_error"}
                /\ Return(c, "query_failed", <<EmptyFrame>>)
                /\ df_p' = EmptyFrame
    /\ open_conns' = Released(open_conns, conn, conn')
    /\ pc' = "p_show"
    /\ UNCHANGED <<env, now, db, app, df_time, player_input, df_timeline, df_ranking,
                   dash_timeline, df_location, kpis, fault>>

\* the sidebar result: metric and chart, or "Tag introuvable."
PlayerShow ==
    /\ pc = "p_show"
    /\ IF ~empty(df_p)
       THEN /\ df_p' = WithTotalMb(df_p)
            /\ surface' = surface \cup {"player_found"}
       ELSE /\ surface' = surface \cup {"tag_not_found"}
            /\ UNCHANGED df_p
    /\ pc' = "done"
    /\ UNCHANGED <<env, now, db, cache, app, conn, open_conns, df_time, player_input,
                   df_timeline, df_ranking, dash_timeline, df_location, kpis, fault, call, noted>>

\* the script run is over; its variables are gone, the page stays until the next run
EndRender ==
    /\ pc = "done"
    /\ pc' = "idle"
    /\ app' = "none"
    /\ conn' = "None"
    /\ df_time' = EmptyFrame
    /\ player_input' = <<>>
    /\ df_timeline' = EmptyFrame
    /\ df_ranking' = EmptyFrame
    /\ dash_timeline' = EmptyFrame
    /\ df_location' = EmptyFrame
    /\ df_p' = EmptyFrame
    /\ surface' = {}
    /\ kpis' = NoKpis
    /\ call' = NoCall
    /\ UNCHANGED <<env, now, db, cache, open_conns, fault, noted>>

\* -------------------------------------------------------------- dash.py
\* a render cycle of dash.py starts
StartDash ==
    /\ pc = "idle"
    /\ app' = "dash"
    /\ pc' = "tl_conn"
    /\ UNCHANGED <<env, now, db, cache, conn, open_conns, df_time, player_input,
                   df_timeline, df_ranking, dash_timeline, df_location, df_p, surface, kpis, fault,
                   call, noted>>

\* get_global_timeline: conn = init_connection(); if conn is None: return pd.DataFrame()
get_global_timeline_connect ==
    /\ pc = "tl_conn"
    /\ \E ok \in BOOLEAN :
         LET r == init_connection(ok)
             b == Begin("get_global_timeline", <<>>)
             c == [b EXCEPT !.connects = @ + 1, !.msgs = @ \cup r.msgs,
                               !.none_args = NoneArguments(env)]
         IN  /\ surface' = surface \cup r.msgs
             /\ IF r.raised
                THEN /\ fault' = TRUE
                     /\ pc' = "done"
                     /\ call' = [c EXCEPT !.outcome = "raised"]
                     /\ UNCHANGED <<cache, noted, conn, open_conns, dash_timeline>>
                ELSE IF r.conn = "None"
                THEN /\ Return(c, "conn_failed", <<EmptyFrame>>)
                     /\ dash_timeline' = EmptyFrame
                     /\ pc' = "loc_conn"
                     /\ UNCHANGED <<conn, open_conns, fault>>
                ELSE /\ conn' = r.conn
                     /\ open_conns' = open_conns + 1
                     /\ call' = c
                     /\ pc' = "tl_q"
                     /\ UNCHANGED <<cache, noted, dash_timeline, fault>>
    /\ UNCHANGED <<env, now, db, app, df_time, player_input, df_timeline, df_ranking, df_location,
                   df_p, kpis>>

\* get_global_timeline: df = pd.read_sql(query, conn); conn.close(); return df
\* except Exception: st.error(...); conn.close(); return pd.DataFrame()
get_global_timeline_query ==
    /\ pc = "tl_q"
    /\ \/ \E f \in GlobalTimelineFrames(db) :
            LET c == [call EXCEPT !.queries = @ + 1, !.fetched = Append(@, f)]
            IN  /\ Return(c, "ok", <<f>>)
                /\ dash_timeline' = f
                /\ UNCHANGED surface
       \/ LET c == [call EXCEPT !.queries = @ + 1, !.msgs = @ \cup {"timeline_query_error"}]
          IN  /\ surface' = surface \cup {"timeline_query_error"}
              /\ Return(c, "query_failed", <<EmptyFrame>>)
              /\ dash_timeline' = EmptyFrame
    /\ conn' = Close(conn)
    /\ open_conns' = Released(open_conns, conn, conn')
    /\ pc' = "loc_conn"
    /\ UNCHANGED <<env, now, db, app, df_time, player_input, df_timeline, df_ranking, df_location,
                   df_p, kpis, fault>>

\* get_global_stats_by_location: conn = init_connection(); if conn is None: ...
get_global_stats_by_location_connect ==
    /\ pc = "loc_conn"
    /\ \E ok \in BOOLEAN :
         LET r == init_connection(ok)
             b == Begin("get_global_stats_by_location", <<>>)
             c == [b EXCEPT !.connects = @ + 1, !.msgs = @ \cup r.msgs,
                               !.none_args = NoneArguments(env)]
         IN  /\ surface' = surface \cup r.msgs
             /\ IF r.raised
                THEN /\ fault' = TRUE
                     /\ pc' = "done"
                     /\ call' = [c EXCEPT !.outcome = "raised"]
                     /\ UNCHANGED <<cache, noted, conn, open_conns, df_location>>
                ELSE IF r.conn = "None"
                THEN /\ Return(c, "conn_failed", <<EmptyFrame>>)
                     /\ df_location' = EmptyFrame
                     /\ pc' = "dash_show"
                     /\ UNCHANGED <<conn, open_conns, fault>>
                ELSE /\ conn' = r.conn
                     /\ open_conns' = open_conns + 1
                     /\ call' = c
                     /\ pc' = "loc_q"
                     /\ UNCHANGED <<cache, noted, df_location, fault>>
    /\ UNCHANGED <<env, now, db, app, df_time, player_input, df_timeline, df_ranking,
                   dash_timeline, df_p, kpis>>

\* get_global_stats_by_location: the query, conn.close(), the except branch
get_global_stats_by_location_query ==
    /\ pc = "loc_q"
    /\ \/ \E f \in GlobalStatsByLocationFrames(db) :
            LET c == [call EXCEPT !.queries = @ + 1, !.fetched = Append(@, f)]
            IN  /\ Return(c, "ok", <<f>>)
                /\ df_location' = f
                /\ UNCHANGED surface
       \/ LET c == [call EXCEPT !.queries = @ + 1, !.msgs = @ \cup {"global_stats_query_error"}]
          IN  /\ surface' = surface \cup {"global_stats_query_error"}
              /\ Return(c, "query_failed", <<EmptyFrame>>)
              /\ df_location' = EmptyFrame
    /\ conn' = Close(conn)
    /\ open_conns' = Released(open_conns, conn, conn')
    /\ pc' = "dash_show"
    /\ UNCHANGED <<env, now, db, app, df_time, player_input, df_timeline, df_ranking,
                   dash_timeline, df_p, kpis, fault>>

\* df_location['location_name'].str.upper() after the MB conversion
WithUpperNames(df) ==
    Frame(df.columns,
          [i \in 1..Len(df.rows) |->
              [df.rows[i] EXCEPT !.location_name = Upper(@)]])

\* the page of dash.py: conversion, metrics, the two charts or the notice
DashRender ==
    /\ pc = "dash_show"
    /\ dash_timeline' = IF ~empty(dash_timeline) THEN WithTotalMb(dash_timeline)
                        ELSE dash_timeline
    /\ df_location' = IF ~empty(df_location) THEN WithUpperNames(WithTotalMb(df_location))
                      ELSE df_location
    /\ surface' = surface
         \cup (IF ~empty(dash_timeline) THEN {"metrics"} ELSE {})
         \cup (IF ~empty(dash_timeline) /\ ~empty(df_location) THEN {"charts"}
               ELSE IF empty(dash_timeline) /\ empty(df_location) THEN {"info_no_data"}
               ELSE {})
    /\ pc' = "done"
    /\ UNCHANGED <<env, now, db, cache, app, conn, open_conns, df_time, player_input,
                   df_timeline, df_ranking, df_p, kpis, fault, call, noted>>

\* ------------------------------------------------------ specification
\* the steps of the two scripts
Script ==
    \/ \E input \in PlayerInputs : StartDashboard(input)
    \/ get_global_data_cached
    \/ get_global_data_connect
    \/ get_global_data_query_timeline
    \/ get_global_data_query_ranking
    \/ RenderMain
    \/ Sidebar
    \/ get_player_data_connect
    \/ get_player_data_query
    \/ PlayerShow
    \/ StartDash
    \/ get_global_timeline_connect
    \/ get_global_timeline_query
    \/ get_global_stats_by_location_connect
    \/ get_global_stats_by_location_query
    \/ DashRender
    \/ EndRender

Next ==
    \/ \E d \in Advances : Tick(d)
    \/ \E r \in RenderUniverse : Ingest(r)
    \/ \E r \in RenderUniverse : Purge(r)
    \/ Script

\* render cycles of a configured deployment, with time passing and the
\* database changing under them
Spec == Init /\ [][Next]_vars

\* render cycles under every environment, complete or not
InitEnv ==
    /\ env \in SUBSET Params
    /\ now = 0
    /\ db \in RenderDatabases
    /\ cache = {}
    /\ app = "none"
    /\ pc = "idle"
    /\ conn = "None"
    /\ open_conns = 0
    /\ df_time = EmptyFrame
    /\ player_input = <<>>
    /\ df_timeline = EmptyFrame
    /\ df_ranking = EmptyFrame
    /\ dash_timeline = EmptyFrame
    /\ df_location = EmptyFrame
    /\ df_p = EmptyFrame
    /\ surface = {}
    /\ kpis = NoKpis
    /\ fault = FALSE
    /\ call = NoCall
    /\ noted = NothingNoted

NextEnv == Script

SpecEnv == InitEnv /\ [][NextEnv]_vars

\* a test keeps the return of a call that failed or matched no rows
Note ==
    /\ noted = NothingNoted
    /\ Kind(call.outcome, call.result) # "other"
    /\ noted' = [fn |-> call.fn, kind |-> Kind(call.outcome, call.result),
                 observed |-> Observed(call.result)]
    /\ UNCHANGED <<env, now, db, cache, app, pc, conn, open_conns, df_time,
                   player_input, df_timeline, df_ranking, dash_timeline, df_location, df_p,
                   surface, kpis, fault, call>>

NextTags ==
    \/ \E r \in RenderUniverse : Ingest(r)
    \/ \E r \in RenderUniverse : Purge(r)
    \/ Script
    \/ Note

\* render cycles watched by a test that compares the returns of two calls
SpecTags == Init /\ [][NextTags]_vars

\* ------------------------------------------- the two timeline queries
\* the per-site timeline of dashboard.py and the global timeline of dash.py,
\* run and converted on one database
InitAgg ==
    /\ env = Params
    /\ now = 0
    /\ db \in Databases(MaxAggRecords)
    /\ cache = {}
    /\ app = "aggregation"
    /\ pc = "agg"
    /\ conn = "None"
    /\ open_conns = 0
    /\ df_time = EmptyFrame
    /\ player_input = <<>>
    /\ df_timeline = EmptyFrame
    /\ df_ranking = EmptyFrame
    /\ dash_timeline = EmptyFrame
    /\ df_location = EmptyFrame
    /\ df_p = EmptyFrame
    /\ surface = {}
    /\ kpis = NoKpis
    /\ fault = FALSE
    /\ call = NoCall
    /\ noted = NothingNoted

\* query_timeline of get_global_data, then the conversion of dashboard.py
AggTimelineBySite ==
    /\ pc = "agg"
    /\ "per_site" \notin surface
    /\ \E f \in TimelineBySiteFrames(db) : df_timeline' = WithTotalMb(f)
    /\ surface' = surface \cup {"per_site"}
    /\ UNCHANGED <<env, now, db, cache, app, pc, conn, open_conns, df_time,
                   player_input, df_ranking, dash_timeline, df_location, df_p,
                   kpis, fault, call, noted>>

\* the query of get_global_timeline, then the conversion of dash.py
AggGlobalTimeline ==
    /\ pc = "agg"
    /\ "global" \notin surface
    /\ \E f \in GlobalTimelineFrames(db) : dash_timeline' = WithTotalMb(f)
    /\ surface' = surface \cup {"global"}
    /\ UNCHANGED <<env, now, db, cache, app, pc, conn, open_conns, df_time,
                   player_input, df_timeline, df_ranking, df_location, df_p,
                   kpis, fault, call, noted>>

\* the ingestion system rewrites the usage rows; the frames are dropped
AggReload ==
    /\ pc = "agg"
    /\ surface # {}
    /\ \E S \in SUBSET StatsUniverse :
         /\ Cardinality(S) <= MaxAggRecords
         /\ db' = [db EXCEPT !.stats = S]
    /\ df_timeline' = EmptyFrame
    /\ dash_timeline' = EmptyFrame
    /\ surface' = {}
    /\ UNCHANGED <<env, now, cache, app, pc, conn, open_conns, df_time,
                   player_input, df_ranking, df_location, df_p, kpis, fault,
                   call, noted>>

NextAgg == AggTimelineBySite \/ AggGlobalTimeline \/ AggReload

SpecAgg == InitAgg /\ [][NextAgg]_vars

\* ------------------------------------------------------------- claims
Returned == call.outcome \in {"hit", "ok", "conn_failed", "query_failed"}

EmptyPair == <<EmptyFrame, EmptyFrame>>

QueryErrors ==
    {"sql_global_error", "sql_player_error", "timeline_query_error",
     "global_stats_query_error"}

\* C1: a get_global_data call made while the cache holds a result stored less
\* than 300 seconds earlier returns that stored result and makes no connection
\* attempt and no query.
C1_HitWithinTtl ==
    \A e \in call.fresh :
        call.fn = "get_global_data" =>
            /\ call.outcome = "hit"
            /\ call.result = e.value
            /\ call.connects = 0
            /\ call.queries = 0

\* C1 witness: a call 299 seconds after a result with rows was stored is served it.
C1_Witness ==
    /\ call.fn = "get_global_data"
    /\ call.outcome = "hit"
    /\ \E e \in call.fresh :
         /\ call.started = e.stored_at + 299
         /\ ~empty(e.value[1])
         /\ df_timeline = e.value[1]

\* rows of frame df whose date_log is day
RowsOf(df, day) == { i \in 1..Len(df.rows) : df.rows[i].date_log = day }

\* C2 (as stated): for every date of the global timeline, the total_mb of the
\* per-site timeline rows of that date add up to the global row's total_mb.
C2_MbSumsAgree ==
    {"per_site", "global"} \subseteq surface =>
        \A g \in 1..Len(dash_timeline.rows) :
            LET R == RowsOf(df_timeline, dash_timeline.rows[g].date_log)
            IN  SumOver(R, [i \in R |-> df_timeline.rows[i].total_mb])
                    = dash_timeline.rows[g].total_mb

\* bytes of the usage rows of a day that match the application but whose
\* computer has no location
UnsitedBytes(d, day) ==
    LET U == { ns \in d.stats :
                 /\ ns.date_log = day
                 /\ Contains(ns.app_name, <<"bsp.exe">>)
                 /\ ~\E c \in d.computers, l \in Locations :
                        c.id = ns.computers_id /\ l.id = c.locations_id }
    IN  SumOver(U, [ns \in U |-> ns.total_sent + ns.total_received])

\* C2 (amended): for every date, the total_bytes of the per-site timeline rows
\* of that date add up to the global timeline's total_bytes for the date less
\* the bytes of the date's rows whose computer has no location.
C2_ByteSumsAgree ==
    {"per_site", "global"} \subseteq surface =>
        \A day \in Dates :
            LET R == RowsOf(df_timeline, day)
                G == RowsOf(dash_timeline, day)
            IN  SumOver(R, [i \in R |-> df_timeline.rows[i].total_bytes])
                    = SumOver(G, [i \in G |-> dash_timeline.rows[i].total_bytes])
                        - UnsitedBytes(db, day)

\* C2 witness: both timelines computed for a day with two sites and a row
\* whose computer has no location.
C2_Witness ==
    /\ {"per_site", "global"} \subseteq surface
    /\ \E day \in Dates :
         /\ Cardinality(RowsOf(df_timeline, day)) = 2
         /\ Cardinality(RowsOf(dash_timeline, day)) = 1
         /\ UnsitedBytes(db, day) > 0

\* C3: a function's return after a failure and its return after a query that
\* matched no rows can be told apart by what a caller tests of the result.
C3_FailureDistinctFromNoRows ==
    ( /\ Returned
      /\ noted.fn = call.fn
      /\ Kind(call.outcome, call.result) # "other"
      /\ Kind(call.outcome, call.result) # noted.kind )
    => Observed(call.result) # noted.observed

\* C4: once an aggregation call has returned no connection is open, whichever
\* way the call ended; only a running call holds a connection, and only one.
C4_ConnectionReleased ==
    /\ call.outcome # "running" => open_conns = 0 /\ conn # "open"
    /\ pc = "idle" => open_conns = 0
    /\ open_conns = (IF conn = "open" THEN 1 ELSE 0)

\* C4 witness: the first query of get_global_data raised on a live connection
\* and the call has returned with the connection closed.
C4_Witness ==
    /\ call.fn = "get_global_data"
    /\ call.outcome = "query_failed"
    /\ call.queries = 1
    /\ conn = "closed"
    /\ open_conns = 0

\* C5: get_global_data returns both query results when both queries succeeded
\* and two empty tables otherwise, never one result without the other.
C5_NoPartialResult ==
    (call.fn = "get_global_data" /\ call.outcome \in {"ok", "conn_failed", "query_failed"})
    => /\ \/ Len(call.fetched) = 2 /\ call.result = call.fetched
          \/ Len(call.fetched) < 2 /\ call.result = EmptyPair
       /\ pc = "main" => df_timeline = call.result[1] /\ df_ranking = call.result[2]

\* C5 witness: the timeline query returned rows, the ranking query raised, and
\* the script holds two empty tables.
C5_Witness ==
    /\ call.fn = "get_global_data"
    /\ call.outcome = "query_failed"
    /\ Len(call.fetched) = 1
    /\ ~empty(call.fetched[1])
    /\ pc = "main"
    /\ df_timeline = EmptyFrame
    /\ df_ranking = EmptyFrame

\* C6: no exception escapes an aggregation call: a failed connection or query
\* leaves an error message on the page and an empty result, no query follows a
\* failed connection, and the script always has its next step to take.
C6_FailuresCaught ==
    /\ fault = FALSE
    /\ call.outcome # "raised"
    /\ call.outcome = "conn_failed" =>
          /\ "connection_error" \in surface
          /\ call.queries = 0
          /\ \A i \in 1..Len(call.result) : call.result[i] = EmptyFrame
    /\ call.outcome = "query_failed" =>
          /\ surface \cap QueryErrors # {}
          /\ \A i \in 1..Len(call.result) : call.result[i] = EmptyFrame
    /\ pc # "idle" => ENABLED Script

\* C6 witness: a dash.py run whose timeline query raised and whose second
\* connection failed has reached its end.
C6_Witness ==
    /\ app = "dash"
    /\ pc = "done"
    /\ call.outcome = "conn_failed"
    /\ "timeline_query_error" \in surface
    /\ "connection_error" \in surface

\* C7: every get_player_data call goes to the database: it is never served
\* from the cache, it makes its connection attempt, it issues its query on the
\* connection it got, and the cache never holds a get_player_data result.
C7_PlayerNeverCached ==
    /\ \A e \in cache : e.fn # "get_player_data"
    /\ (call.fn = "get_player_data" /\ Returned) =>
          /\ call.outcome # "hit"
          /\ call.connects = 1
          /\ call.outcome # "conn_failed" => call.queries = 1

\* C7 witness: a get_player_data call ran its query while the cache held a
\* fresh global result.
C7_Witness ==
    /\ call.fn = "get_player_data"
    /\ call.outcome = "ok"
    /\ call.queries = 1
    /\ ~empty(df_p)
    /\ \E e \in cache : e.fn = "get_global_data" /\ now < e.stored_at + TTL /\ now > e.stored_at

\* C8: with a connection parameter missing from the environment no connection
\* attempt is made.
C8_NoConnectWhenParamMissing ==
    env # Params => call.connects = 0 /\ call.none_args = {}

\* C9: the first row of the ranking is read only when the ranking has a row;
\* otherwise the no-data notice is shown.
C9_TopEntryGuarded ==
    /\ "top_entry_read" \in surface =>
          /\ Len(df_ranking.rows) >= 1
          /\ kpis.top_loc_name = df_ranking.rows[1].location_name
    /\ (app = "dashboard" /\ pc \in {"sidebar", "p_conn", "p_q", "p_show", "done"}
          /\ "top_entry_read" \notin surface)
       => "info_no_data" \in surface

\* C9 witness: the timeline has rows, the ranking has none, and the notice is shown.
C9_Witness ==
    /\ app = "dashboard"
    /\ pc = "sidebar"
    /\ ~empty(df_timeline)
    /\ Len(df_ranking.rows) = 0
    /\ "info_no_data" \in surface
    /\ "top_entry_read" \notin surface

\* C10: a get_global_data call that failed leaves its two empty tables in the
\* cache; a call within 300 seconds of that is served them without a
\* connection attempt, and an attempt is made only when no entry is fresh.
C10_FailureMemoized ==
    call.fn = "get_global_data" =>
        /\ call.outcome \in {"conn_failed", "query_failed"} =>
              \E e \in cache : /\ e.fn = "get_global_data"
                               /\ e.value = EmptyPair
                               /\ e.stored_at >= call.started
        /\ \A e \in call.fresh :
              e.msgs # {} => /\ call.outcome = "hit"
                             /\ df_timeline = EmptyFrame /\ df_ranking = EmptyFrame
                             /\ e.msgs \subseteq surface
        /\ call.connects > 0 => call.fresh = {}

\* C10 witness: 299 seconds after a failed computation, with usage rows in the
\* database, the call is served the stored empty tables.
C10_Witness ==
    /\ call.fn = "get_global_data"
    /\ call.outcome = "hit"
    /\ call.result = EmptyPair
    /\ TimelineBySiteRows(db) # {}
    /\ \E e \in call.fresh : e.msgs # {} /\ call.started = e.stored_at + 299

====
